---- MODULE Spec2Model ----
(***************************************************************************)
(* A model of the BLS CES wrangling scripts: prep_CES_pandas.py (the       *)
(* NAICS proxy pipeline with collapse_career) and load_CES_pandas.py (the  *)
(* dictionary builder and extract_proxy_dataset).                          *)
(*                                                                         *)
(* Representation.  A DataFrame is a sequence of records (its rows, in     *)
(* order).  A string is a sequence of characters (a text whose characters  *)
(* are never inspected is one chunk); " " is the whitespace character.     *)
(* A nullable cell is NA (<<>>) or Some(x) (<<x>>).  Numbers are naturals  *)
(* and a quotient n/d is kept exactly as the pair <<n, d>>: the float      *)
(* rounding of the division is not modelled.  A date is <<year, month,     *)
(* day>>.                                                                  *)
(***************************************************************************)
EXTENDS Integers, Sequences, FiniteSets, TLC

VARIABLES
    prog,        \* what runs: "prep" (main), "load" (main), "extract" (a call), "none"
    pc,          \* position in that script's main()
    tables,      \* the raw tables read from disk: data, series, industry, datatype
    series_dict, \* the series dictionary
    df,          \* prep main: the joined observation table
    idx,         \* index of the proxy the loop is at
    extracted,   \* load main: proxy -> table returned by extract_proxy_dataset
    files,       \* proxy -> NA (no file written) or Some(table written)
    warned,      \* proxies named in an "empty" diagnostic
    career_df,   \* argument of the last collapse_career call
    cc,          \* locals of the last collapse_career call (raised, emp_m, earn, earn_m, out)
    naics,       \* naics_mask: the code column passed in
    exact,       \* naics_mask: the exact codes
    prefixes,    \* naics_mask: the prefixes
    m            \* naics_mask: the mask returned

vars == <<prog, pc, tables, series_dict, df, idx, extracted, files, warned,
          career_df, cc, naics, exact, prefixes, m>>

(***************************************************************************)
(* Cells, strings, sequences                                               *)
(***************************************************************************)
NA == <<>>
Some(x) == <<x>>

RECURSIVE Concat(_)
Concat(ss) == IF ss = <<>> THEN <<>> ELSE Head(ss) \o Concat(Tail(ss))

Col(rows, c) == [i \in 1..Len(rows) |-> rows[i][c]]

SeqSet(s) == {s[i] : i \in 1..Len(s)}

RECURSIVE SumSeq(_)
SumSeq(s) == IF s = <<>> THEN 0 ELSE Head(s) + SumSeq(Tail(s))

\* Series.sum(): NA cells are skipped and the sum of no cell is 0 (min_count=0).
SumSkipNA(cells) ==
    LET present == SelectSeq(cells, LAMBDA c : c # NA)
    IN  SumSeq([i \in 1..Len(present) |-> present[i][1]])

\* Elementwise product of two cells: NA if either is NA.
Mul(v, w) == IF v = NA \/ w = NA THEN NA ELSE Some(v[1] * w[1])

\* Float division of two sums of naturals: 0/0 is NaN (null), n/0 is inf
\* (kept as <<n, 0>>), otherwise the exact quotient <<n, d>>.
Div(n, d) == IF d = 0 /\ n = 0 THEN NA ELSE <<n, d>>

DateLT(a, b) ==
    \/ a[1] < b[1]
    \/ a[1] = b[1] /\ a[2] < b[2]
    \/ a[1] = b[1] /\ a[2] = b[2] /\ a[3] < b[3]

\* The group keys of groupby("date"): the distinct dates, ascending.
RECURSIVE SortedDates(_)
SortedDates(S) ==
    IF S = {} THEN <<>>
    ELSE LET mn == CHOOSE d \in S : \A e \in S : ~DateLT(e, d)
         IN  <<mn>> \o SortedDates(S \ {mn})

\* DataFrame.sort_values("date"): a stable insertion sort.
RECURSIVE InsertByDate(_, _)
InsertByDate(r, s) ==
    IF s = <<>> THEN <<r>>
    ELSE IF DateLT(r.date, Head(s).date) THEN <<r>> \o s
    ELSE <<Head(s)>> \o InsertByDate(r, Tail(s))

RECURSIVE SortByDate(_)
SortByDate(s) ==
    IF s = <<>> THEN <<>>
    ELSE InsertByDate(s[Len(s)], SortByDate(SubSeq(s, 1, Len(s) - 1)))

(***************************************************************************)
(* Strings                                                                 *)
(***************************************************************************)
\* str.strip(): leading and trailing whitespace removed.
RECURSIVE LStrip(_)
LStrip(s) == IF s # <<>> /\ Head(s) = " " THEN LStrip(Tail(s)) ELSE s

RECURSIVE RStrip(_)
RStrip(s) ==
    IF s # <<>> /\ s[Len(s)] = " " THEN RStrip(SubSeq(s, 1, Len(s) - 1)) ELSE s

StrStrip(s) == RStrip(LStrip(s))

\* Series.astype("string").str.strip(): a null cell stays null.
StripCell(c) == IF c = NA THEN NA ELSE Some(StrStrip(c[1]))

StripCol(rows, c) ==
    [i \in 1..Len(rows) |-> [rows[i] EXCEPT ![c] = StripCell(rows[i][c])]]

\* str.startswith(p), character by character.
RECURSIVE StartsWith(_, _)
StartsWith(s, p) ==
    IF p = <<>> THEN TRUE
    ELSE IF s = <<>> THEN FALSE
    ELSE Head(s) = Head(p) /\ StartsWith(Tail(s), Tail(p))

Digits == <<"0", "1", "2", "3", "4", "5", "6", "7", "8", "9">>

IsDigit(c) == \E i \in 1..Len(Digits) : Digits[i] = c

DigitVal(c) == (CHOOSE i \in 1..Len(Digits) : Digits[i] = c) - 1

\* int(text) of a digit string.
RECURSIVE ParseNat(_)
ParseNat(s) ==
    IF s = <<>> THEN 0
    ELSE ParseNat(SubSeq(s, 1, Len(s) - 1)) * Len(Digits) + DigitVal(s[Len(s)])

\* str(n) of a natural.
RECURSIVE FormatNat(_)
FormatNat(n) ==
    IF n < Len(Digits) THEN <<Digits[n + 1]>>
    ELSE FormatNat(n \div Len(Digits)) \o <<Digits[(n % Len(Digits)) + 1]>>

\* pd.to_numeric(errors="coerce") of a text cell: surrounding whitespace is
\* ignored, a digit string parses, anything else (and null) becomes null.
to_numeric(c) ==
    IF c = NA THEN NA
    ELSE LET t == StrStrip(c[1])
         IN  IF t # <<>> /\ \A i \in 1..Len(t) : IsDigit(t[i])
             THEN Some(ParseNat(t)) ELSE NA

(***************************************************************************)
(* Monthly periods and dates                                               *)
(***************************************************************************)
\* The filter pattern with the month range left out: ^M[0-9][0-9]$
MonthlyMatchAnyTwoDigits(c) ==
    /\ c # NA
    /\ LET p == c[1]
       IN  /\ Len(p) = 3 \/ (Len(p) = 4 /\ p[4] = "\n")
           /\ p[1] = "M"
           /\ IsDigit(p[2]) /\ IsDigit(p[3])

\* period.str.match(r"^M(0[1-9]|1[0-2])$") used as a row mask: a null period
\* is not kept; "$" also matches before one trailing newline.
MonthlyMatch(c) ==
    /\ c # NA
    /\ LET p == c[1]
       IN  /\ Len(p) = 3 \/ (Len(p) = 4 /\ p[4] = "\n")
           /\ p[1] = "M"
           /\ \/ p[2] = "0" /\ p[3] \in {"1", "2", "3", "4", "5", "6", "7", "8", "9"}
              \/ p[2] = "1" /\ p[3] \in {"0", "1", "2"}

\* str.zfill(2)
ZFill2(s) == IF Len(s) < 2 THEN <<"0">> \o s ELSE s

\* The fields of a text between its dashes.
RECURSIVE SplitDash(_)
SplitDash(s) ==
    IF \A i \in 1..Len(s) : s[i] # "-" THEN <<s>>
    ELSE LET i == CHOOSE k \in 1..Len(s) : s[k] = "-" /\ \A j \in 1..(k - 1) : s[j] # "-"
         IN  <<SubSeq(s, 1, i - 1)>> \o SplitDash(SubSeq(s, i + 1, Len(s)))

\* pd.to_datetime of a "Y-M-D" text: the date, or NA when the text is no date
\* (to_datetime raises, or gives NaT under errors="coerce").
to_datetime(text) ==
    LET f == SplitDash(text)
    IN  IF /\ Len(f) = 3
           /\ \A k \in 1..3 : f[k] # <<>> /\ \A i \in 1..Len(f[k]) : IsDigit(f[k][i])
           /\ ParseNat(f[2]) \in 1..12
           /\ ParseNat(f[3]) \in 1..31
        THEN Some(<<ParseNat(f[1]), ParseNat(f[2]), ParseNat(f[3])>>)
        ELSE NA

\* month = period.str.replace("M", "").astype(int)
MonthOfPeriod(p) == ParseNat(SelectSeq(p, LAMBDA c : c # "M" /\ c # "\n"))

\* prep make_date(year, period): year is an int column; NA stands for the
\* ValueError to_datetime raises.
make_date(year, period) ==
    to_datetime(FormatNat(year) \o <<"-">> \o ZFill2(FormatNat(MonthOfPeriod(period)))
                    \o <<"-", "0", "1">>)

\* load make_monthly_date(year, period): year is a string column; NA is NaT.
make_monthly_date(year, period) ==
    to_datetime(year \o <<"-">> \o ZFill2(FormatNat(MonthOfPeriod(period)))
                    \o <<"-", "0", "1">>)

(***************************************************************************)
(* prep_CES_pandas.py: constants                                           *)
(***************************************************************************)
EMP_TEXT == <<"ALL EMPLOYEES, THOUSANDS">>
AHE_TEXT == <<"AVERAGE HOURLY EARNINGS OF ALL EMPLOYEES">>
MEASURES == {EMP_TEXT, AHE_TEXT}

(***************************************************************************)
(* collapse_career                                                         *)
(***************************************************************************)
\* emp.groupby("date", as_index=False)["value"].sum(), renamed.
emp_m_ungrouped(emp) ==
    [i \in 1..Len(emp) |->
        [date |-> emp[i].date, employment_thousands |-> Some(SumSkipNA(<<emp[i].value>>))]]

emp_m(emp) ==
    LET keys == SortedDates(SeqSet(Col(emp, "date")))
    IN  [k \in 1..Len(keys) |->
            [date |-> keys[k],
             employment_thousands |->
                Some(SumSkipNA(Col(SelectSeq(emp, LAMBDA r : r.date = keys[k]), "value")))]]

\* earn.merge(emp[[date, industry_code, value]] renamed, on=[date, industry_code],
\* how="left"): one row per (earnings row, matching employment row); an earnings
\* row without a match is kept once with a null weight.
earn_merge(earn, emp) ==
    Concat([i \in 1..Len(earn) |->
        LET e  == earn[i]
            ms == SelectSeq(emp, LAMBDA r : r.date = e.date
                                          /\ r.industry_code = e.industry_code)
        IN  IF ms = <<>>
            THEN <<[date |-> e.date, industry_code |-> e.industry_code,
                    value |-> e.value, emp_weight_thousands |-> NA]>>
            ELSE [j \in 1..Len(ms) |->
                    [date |-> e.date, industry_code |-> e.industry_code,
                     value |-> e.value, emp_weight_thousands |-> ms[j].value]]])

\* The lambda of the groupby-apply:
\* (g.value * g.emp_weight_thousands).sum() / g.emp_weight_thousands.sum()
UnweightedNumerator(g) ==
    Div(SumSkipNA(Col(g, "value")), SumSkipNA(Col(g, "emp_weight_thousands")))

WeightedAverage(g) ==
    Div(SumSkipNA([i \in 1..Len(g) |-> Mul(g[i].value, g[i].emp_weight_thousands)]),
        SumSkipNA(Col(g, "emp_weight_thousands")))

earn_m(earn) ==
    LET keys == SortedDates(SeqSet(Col(earn, "date")))
    IN  [k \in 1..Len(keys) |->
            [date |-> keys[k],
             avg_hourly_earnings |->
                WeightedAverage(SelectSeq(earn, LAMBDA r : r.date = keys[k]))]]

\* emp_m.merge(earn_m, on="date", how="left").sort_values("date").reset_index(drop=True)
out_merge(em, am) ==
    SortByDate(Concat([i \in 1..Len(em) |->
        LET ms == SelectSeq(am, LAMBDA r : r.date = em[i].date)
        IN  IF ms = <<>>
            THEN <<[date |-> em[i].date,
                    employment_thousands |-> em[i].employment_thousands,
                    avg_hourly_earnings |-> NA]>>
            ELSE [j \in 1..Len(ms) |->
                    [date |-> em[i].date,
                     employment_thousands |-> em[i].employment_thousands,
                     avg_hourly_earnings |-> ms[j].avg_hourly_earnings]]]))

\* The locals of a call.  With no earnings row the groupby has no group,
\* DataFrameGroupBy.apply returns a DataFrame, and DataFrame has no to_frame:
\* the call raises AttributeError at line 92.
collapse_career(d) ==
    LET emp  == SelectSeq(d, LAMBDA r : r.datatype_text = Some(EMP_TEXT))
        earn == SelectSeq(d, LAMBDA r : r.datatype_text = Some(AHE_TEXT))
        em   == emp_m(emp)
        mg   == earn_merge(earn, emp)
    IN  IF mg = <<>>
        THEN [raised |-> TRUE, emp_m |-> em, earn |-> mg, earn_m |-> <<>>, out |-> <<>>]
        ELSE [raised |-> FALSE, emp_m |-> em, earn |-> mg, earn_m |-> earn_m(mg),
              out |-> out_merge(em, earn_m(mg))]

NoCall == [raised |-> FALSE, emp_m |-> <<>>, earn |-> <<>>, earn_m |-> <<>>, out |-> <<>>]

(***************************************************************************)
(* naics_mask (prep) and code_matches (load)                               *)
(***************************************************************************)
\* The mask with the exact codes matched as prefixes too.
naics_mask_exact_as_prefix(codes, ex, pre) ==
    LET s   == [i \in 1..Len(codes) |-> StripCell(codes[i])]
        all == SeqSet([i \in 1..Len(ex) |-> StrStrip(ex[i])])
                   \cup SeqSet([i \in 1..Len(pre) |-> StrStrip(pre[i])])
    IN  [i \in 1..Len(s) |-> s[i] # NA /\ \E p \in all : StartsWith(s[i][1], p)]

\* s = naics.astype("string").str.strip(); m starts all False;
\* if exact: m |= s.isin(stripped exact); if prefixes: m |= s.str.startswith(...)
naics_mask(codes, ex, pre) ==
    LET s   == [i \in 1..Len(codes) |-> StripCell(codes[i])]
        m0  == [i \in 1..Len(s) |-> FALSE]
        exS == SeqSet([i \in 1..Len(ex) |-> StrStrip(ex[i])])
        m1  == IF ex # <<>>
               THEN [i \in 1..Len(s) |-> m0[i] \/ (s[i] # NA /\ s[i][1] \in exS)]
               ELSE m0
        prS == SeqSet([i \in 1..Len(pre) |-> StrStrip(pre[i])])
    IN  IF pre # <<>>
        THEN [i \in 1..Len(s) |->
                m1[i] \/ (s[i] # NA /\ \E p \in prS : StartsWith(s[i][1], p))]
        ELSE m1

\* pred of code_matches(codes): s = series.fillna("");
\* s.isin(codes) | s.apply(any startswith)
code_matches(codes, column) ==
    LET s == [i \in 1..Len(column) |-> IF column[i] = NA THEN <<>> ELSE column[i][1]]
    IN  [i \in 1..Len(s) |-> s[i] \in codes \/ \E c \in codes : StartsWith(s[i], c)]

\* df[mask]
Masked(rows, mask) ==
    LET keep == {i \in 1..Len(rows) : mask[i]}
        RECURSIVE Pick(_)
        Pick(i) == IF i > Len(rows) THEN <<>>
                   ELSE (IF i \in keep THEN <<rows[i]>> ELSE <<>>) \o Pick(i + 1)
    IN  Pick(1)

\* CAREER_NAICS, in dictionary order; a missing key is None (here the empty list).
CAREER_NAICS == <<
    [career |-> "mechanic", naics_exact |-> <<>>,
     naics_prefixes |-> << <<"8", "1", "1", "1">> >>],
    [career |-> "graphic_designer", naics_exact |-> << <<"5", "4", "1", "4", "3">> >>,
     naics_prefixes |-> <<>>],
    [career |-> "software_developer", naics_exact |-> << <<"5", "1", "1", "2", "1", "0">> >>,
     naics_prefixes |-> << <<"5", "4", "1", "5">> >>] >>

(***************************************************************************)
(* Tables and the series dictionary                                        *)
(***************************************************************************)
\* left.merge(right, on=key, how="left"): the left rows in order, each once
\* per right row with the same key (null keys match each other), or once with
\* the right columns null when it has none.
merge_inner(L, R, key, nulls) ==
    Concat([k \in 1..Len(L) |->
        LET ms == SelectSeq(R, LAMBDA r : r[key] = L[k][key])
        IN  [j \in 1..Len(ms) |-> L[k] @@ ms[j]]])

merge_left(L, R, key, nulls) ==
    Concat([k \in 1..Len(L) |->
        LET ms == SelectSeq(R, LAMBDA r : r[key] = L[k][key])
        IN  IF ms = <<>> THEN <<L[k] @@ nulls>>
            ELSE [j \in 1..Len(ms) |-> L[k] @@ ms[j]]])

\* load: build_dictionary.  The columns are reduced to the essentials and
\* nothing is stripped.
build_dictionary(t) ==
    LET i == [j \in 1..Len(t.industry) |->
                [industry_code |-> t.industry[j].industry_code,
                 industry_name |-> t.industry[j].industry_name]]
    IN  merge_left(merge_left(t.series, i, "industry_code", [industry_name |-> NA]),
                   t.datatype, "datatype_code", [datatype_text |-> NA])

\* prep main, lines 112-129: the key columns stripped, year and value made
\* numeric.
prep_normalize(t) ==
    [data |->
        LET d == StripCol(StripCol(t.data, "series_id"), "period")
        IN  [j \in 1..Len(d) |->
                [d[j] EXCEPT !.year = ParseNat(d[j].year[1]),
                             !.value = to_numeric(d[j].value)]],
     series |-> StripCol(StripCol(StripCol(t.series, "series_id"),
                                  "industry_code"), "datatype_code"),
     industry |-> StripCol(StripCol(t.industry, "industry_code"), "naics_code"),
     datatype |-> StripCol(StripCol(t.datatype, "datatype_code"), "datatype_text")]

\* prep main, lines 132-136: the dictionary, with naics_code.
prep_series_dict(t) ==
    merge_left(merge_left(t.series, t.industry, "industry_code",
                          [naics_code |-> NA, industry_name |-> NA]),
               t.datatype, "datatype_code", [datatype_text |-> NA])

(***************************************************************************)
(* load: extract_proxy_dataset                                             *)
(***************************************************************************)
\* The order of the characters (and one-chunk texts) the sorted columns hold.
SortOrder ==
    <<" ", "0", "1", "2", "3", "4", "5", "6", "7", "8", "9",
      "ALL EMPLOYEES, THOUSANDS",
      "AVERAGE HOURLY EARNINGS OF ALL EMPLOYEES",
      "AVERAGE WEEKLY HOURS OF ALL EMPLOYEES">>

Rank(c) == CHOOSE i \in 1..Len(SortOrder) : SortOrder[i] = c

RECURSIVE StrLT(_, _)
StrLT(a, b) ==
    IF b = <<>> THEN FALSE
    ELSE IF a = <<>> THEN TRUE
    ELSE IF Head(a) = Head(b) THEN StrLT(Tail(a), Tail(b))
    ELSE Rank(Head(a)) < Rank(Head(b))

\* Order of sort_values(["datatype_text", "industry_code", "date"]); nulls last.
ExtractLT(r, q) ==
    LET lt1 == r.datatype_text # NA
                 /\ (q.datatype_text = NA \/ StrLT(r.datatype_text[1], q.datatype_text[1]))
        lt2 == r.industry_code # NA
                 /\ (q.industry_code = NA \/ StrLT(r.industry_code[1], q.industry_code[1]))
        lt3 == r.date # NA /\ (q.date = NA \/ DateLT(r.date[1], q.date[1]))
    IN  \/ lt1
        \/ r.datatype_text = q.datatype_text /\ lt2
        \/ r.datatype_text = q.datatype_text /\ r.industry_code = q.industry_code /\ lt3

RECURSIVE ExtractInsert(_, _)
ExtractInsert(r, s) ==
    IF s = <<>> THEN <<r>>
    ELSE IF ExtractLT(r, Head(s)) THEN <<r>> \o s
    ELSE <<Head(s)>> \o ExtractInsert(r, Tail(s))

RECURSIVE ExtractSort(_)
ExtractSort(s) ==
    IF s = <<>> THEN <<>>
    ELSE ExtractInsert(s[Len(s)], ExtractSort(SubSeq(s, 1, Len(s) - 1)))

DictNulls ==
    [industry_code |-> NA, datatype_code |-> NA, seasonal |-> NA,
     industry_name |-> NA, datatype_text |-> NA]

\* codes: the set given to code_matches; whitelist: a set of texts;
\* seasonal: NA (None) or Some(flag).
extract_proxy_dataset(t, dict, codes, whitelist, seasonal) ==
    LET data0 == SelectSeq(t.data, LAMBDA r : MonthlyMatch(r.period))
        data1 == [j \in 1..Len(data0) |->
                    [data0[j] EXCEPT !.value = to_numeric(data0[j].value)]]
        df1   == merge_left(data1, dict, "series_id", DictNulls)
        df2   == Masked(df1, code_matches(codes, Col(df1, "industry_code")))
        df3   == SelectSeq(df2, LAMBDA r : r.datatype_text # NA
                                         /\ r.datatype_text[1] \in whitelist)
        df4   == IF seasonal # NA
                 THEN SelectSeq(df3, LAMBDA r : r.seasonal = seasonal)
                 ELSE df3
        df5   == [j \in 1..Len(df4) |->
                    [date |-> make_monthly_date(df4[j].year[1], df4[j].period[1]),
                     year |-> df4[j].year, period |-> df4[j].period,
                     series_id |-> df4[j].series_id, seasonal |-> df4[j].seasonal,
                     industry_code |-> df4[j].industry_code,
                     industry_name |-> df4[j].industry_name,
                     datatype_code |-> df4[j].datatype_code,
                     datatype_text |-> df4[j].datatype_text,
                     value |-> df4[j].value]]
    IN  ExtractSort(df5)

\* load main: the three proxies' code sets, the names its diagnostic uses, and
\* the measure whitelist.
LOAD_PROXIES == <<
    [name |-> "mechanic", codes |-> { <<"8", "1", "1", "1">> }],
    [name |-> "graphic", codes |-> { <<"5", "4", "1", "4", "3">>,
                                     <<"5", "4", "1", "4", "3", "0">> }],
    [name |-> "software", codes |-> { <<"5", "1", "1", "2", "1", "0">>,
                                      <<"5", "4", "1", "5">> }] >>

LOAD_MEASURES ==
    { <<"All employees">>, <<"Average hourly earnings">>, <<"Average weekly hours">> }

(***************************************************************************)
(* prep main: monthly filter, join, measure filter                         *)
(***************************************************************************)
PrepDictNulls ==
    [industry_code |-> NA, datatype_code |-> NA, seasonal |-> NA,
     naics_code |-> NA, industry_name |-> NA, datatype_text |-> NA]

\* line 155
prep_monthly(data) == SelectSeq(data, LAMBDA r : MonthlyMatch(r.period))

\* lines 158-159: the join and the date column (a cell: NA where make_date
\* raises).
prep_join(data, dict) ==
    LET j == merge_left(data, dict, "series_id", PrepDictNulls)
    IN  [k \in 1..Len(j) |-> j[k] @@ [date |-> make_date(j[k].year, j[k].period[1])]]

\* lines 162-165
prep_measures(rows) ==
    SelectSeq(StripCol(StripCol(rows, "datatype_text"), "naics_code"),
              LAMBDA r : r.datatype_text # NA /\ r.datatype_text[1] \in MEASURES)

(***************************************************************************)
(* Idle values of the variable groups a specification does not use         *)
(***************************************************************************)
NoTables == [data |-> <<>>, series |-> <<>>, industry |-> <<>>, datatype |-> <<>>]

IdlePipeline ==
    /\ prog = "none"
    /\ tables = NoTables
    /\ series_dict = <<>>
    /\ df = <<>>
    /\ idx = 1
    /\ extracted = <<>>
    /\ files = <<>>
    /\ warned = {}

IdleCollapse == career_df = <<>> /\ cc = NoCall

IdleMask == naics = <<>> /\ exact = <<>> /\ prefixes = <<>> /\ m = <<>>

(***************************************************************************)
(* SpecCollapse: collapse_career called on matched monthly rows            *)
(***************************************************************************)
MaxRows == 4

D1 == <<2020, 1, 1>>
D2 == <<2020, 2, 1>>
IndA == Some(<<"1", "0">>)
IndB == Some(<<"2", "0">>)

\* The matched rows a proxy can hold: two months, two industry codes; the
\* first industry's cells may be null or zero.  Several series (seasonally
\* adjusted and not) may share a (date, industry code, measure), so a row may
\* repeat in a table.
MatchedRows ==
    {[date |-> d, industry_code |-> IndA, datatype_text |-> Some(EMP_TEXT), value |-> v] :
        d \in {D1, D2}, v \in {NA, Some(0), Some(100)}}
    \cup
    {[date |-> d, industry_code |-> IndA, datatype_text |-> Some(AHE_TEXT), value |-> v] :
        d \in {D1, D2}, v \in {NA, Some(10)}}
    \cup
    {[date |-> d, industry_code |-> IndB, datatype_text |-> Some(EMP_TEXT), value |-> Some(300)] :
        d \in {D1, D2}}
    \cup
    {[date |-> d, industry_code |-> IndB, datatype_text |-> Some(AHE_TEXT), value |-> Some(20)] :
        d \in {D1, D2}}

InitCollapse ==
    /\ IdlePipeline
    /\ IdleMask
    /\ pc = "call"
    /\ career_df \in UNION {[1..n -> MatchedRows] : n \in 1..MaxRows}
    /\ cc = NoCall

CollapseCall ==
    /\ pc = "call"
    /\ cc' = collapse_career(career_df)
    /\ pc' = IF cc'.raised THEN "raised" ELSE "returned"
    /\ UNCHANGED <<prog, tables, series_dict, df, idx, extracted, files, warned,
                   career_df, naics, exact, prefixes, m>>

NextCollapse == CollapseCall

SpecCollapse == InitCollapse /\ [][NextCollapse]_vars

(***************************************************************************)
(* Properties of collapse_career (checked under SpecCollapse)              *)
(***************************************************************************)
Returned == pc = "returned"

RowsOf(d, text) ==
    SelectSeq(career_df, LAMBDA r : r.date = d /\ r.datatype_text = Some(text))

DatesOf(text) ==
    {career_df[i].date : i \in {k \in 1..Len(career_df) :
                                    career_df[k].datatype_text = Some(text)}}

\* The <<earnings, weight>> pairs of a date, read off the input: every earnings
\* row with every employment value of its (date, industry code).
PairsAt(d) ==
    LET E == RowsOf(d, AHE_TEXT)
    IN  Concat([i \in 1..Len(E) |->
            LET W == SelectSeq(RowsOf(d, EMP_TEXT),
                               LAMBDA r : r.industry_code = E[i].industry_code)
            IN  [j \in 1..Len(W) |-> <<E[i].value, W[j].value>>]])

TotalWeight(d) == SumSkipNA([k \in 1..Len(PairsAt(d)) |-> PairsAt(d)[k][2]])

\* Equality of two averages: both null, or the same quotient.
QEq(a, b) ==
    \/ a = NA /\ b = NA
    \/ a # NA /\ b # NA /\ a[1] * b[2] = b[1] * a[2]

AvgAt(table, d) ==
    LET rs == SelectSeq(table, LAMBDA r : r.date = d) IN rs[1].avg_hourly_earnings

HasDate(table, d) == \E i \in 1..Len(table) : table[i].date = d

\* The average the qualifying pairs of date d give, null on a zero denominator.
C1_ExpectedAverage(d) ==
    LET q   == SelectSeq(PairsAt(d), LAMBDA p : p[1] # NA /\ p[2] # NA)
        num == SumSeq([k \in 1..Len(q) |-> q[k][1][1] * q[k][2][1]])
        den == SumSeq([k \in 1..Len(q) |-> q[k][2][1]])
    IN  IF den = 0 THEN NA ELSE <<num, den>>

\* C1 (as claimed): for every date, the weighted average is
\* sum(earnings * weight) / sum(weight), both sums over the pairs whose earnings
\* and weight are both non-null.
C1_WeightedAverageOverQualifyingRows ==
    Returned =>
        \A d \in DatesOf(AHE_TEXT) :
            /\ HasDate(cc.earn_m, d)
            /\ QEq(AvgAt(cc.earn_m, d), C1_ExpectedAverage(d))

\* C2 (as claimed): the employment total of a date is the sum of its non-null
\* employment values, and null when all of them are null.
C2_EmploymentTotalNullWhenAllNull ==
    Returned =>
        \A i \in 1..Len(cc.out) :
            LET vals == Col(RowsOf(cc.out[i].date, EMP_TEXT), "value")
            IN  cc.out[i].employment_thousands =
                    IF \A k \in 1..Len(vals) : vals[k] = NA
                    THEN NA ELSE Some(SumSkipNA(vals))

\* C3 (as claimed): every date of the employment rows or of the earnings rows
\* has an output row, with null in the field the date has no rows for.
C3_NoDateDropped ==
    Returned =>
        \A d \in DatesOf(EMP_TEXT) \cup DatesOf(AHE_TEXT) :
            /\ HasDate(cc.out, d)
            /\ \A i \in 1..Len(cc.out) :
                  cc.out[i].date = d =>
                    /\ d \notin DatesOf(AHE_TEXT) => cc.out[i].avg_hourly_earnings = NA
                    /\ d \notin DatesOf(EMP_TEXT) => cc.out[i].employment_thousands = NA

C8_OutputStrictlyAscending ==
    Returned =>
        \A i \in 1..(Len(cc.out) - 1) : DateLT(cc.out[i].date, cc.out[i + 1].date)

C8_Witness ==
    /\ Returned
    /\ Len(cc.out) = 2
    /\ Len(career_df) = 4
    /\ career_df[1].date = D2
    /\ career_df[2].date = D1
    /\ career_df[3].date = D2
    /\ \A i \in 1..3 : career_df[i].datatype_text = Some(EMP_TEXT)

(***************************************************************************)
(* SpecMask: naics_mask called on a stripped code column                   *)
(***************************************************************************)
MaxCodes == 2

\* Raw naics_code cells of a joined table: null (no industry row), codes of
\* the kinds the proxies distinguish, and padded ones.  main strips the column
\* (line 163) before it calls naics_mask.
RawCodes ==
    { NA,
      Some(<<"5", "4", "1", "4", "3">>),
      Some(<<"5", "4", "1", "4", "3", "0">>),
      Some(<<"8", "1", "1", "1">>),
      Some(<<"8", "1", "1", "1", "9", "2">>),
      Some(<<"8", "1", "1", "2", "9">>),
      Some(<<"8", "1", "1", "1", " ">>),
      Some(<<"5", "1", "1", "2", "1", "0">>),
      Some(<<"5", "4", "1", "5", "1", "1">>),
      Some(<<" ">>) }

\* The codes a proxy definition lists.
ProxyCodes ==
    { <<"5", "4", "1", "4", "3">>, <<"8", "1", "1", "1">>,
      <<"5", "1", "1", "2", "1", "0">>, <<"5", "4", "1", "5">> }

CodeLists == UNION {[1..n -> ProxyCodes] : n \in 0..2}

InitMask ==
    /\ IdlePipeline
    /\ IdleCollapse
    /\ pc = "call"
    /\ \E raw \in UNION {[1..n -> RawCodes] : n \in 1..MaxCodes} :
          naics = [i \in 1..Len(raw) |-> StripCell(raw[i])]
    /\ exact \in CodeLists
    /\ prefixes \in CodeLists
    /\ m = <<>>

NaicsMaskCall ==
    /\ pc = "call"
    /\ m' = naics_mask(naics, exact, prefixes)
    /\ pc' = "returned"
    /\ UNCHANGED <<prog, tables, series_dict, df, idx, extracted, files, warned,
                   career_df, cc, naics, exact, prefixes>>

NextMask == NaicsMaskCall

SpecMask == InitMask /\ [][NextMask]_vars

\* p is an initial segment of code.
IsPrefixOf(p, code) == Len(p) <= Len(code) /\ SubSeq(code, 1, Len(p)) = p

\* C4: the mask is true for a code exactly when the code is non-null and
\* equals an exact code or starts with a prefix; a null code never matches.
C4_MaskIsExactOrPrefix ==
    pc = "returned" =>
        /\ Len(m) = Len(naics)
        /\ \A i \in 1..Len(naics) :
              m[i] <=> /\ naics[i] # NA
                       /\ \/ \E k \in 1..Len(exact) : naics[i][1] = exact[k]
                          \/ \E k \in 1..Len(prefixes) : IsPrefixOf(prefixes[k], naics[i][1])

\* exact = {"54143"} with no prefix leaves "541430" unmatched and matches "54143".
C4_Witness ==
    /\ pc = "returned"
    /\ exact = << <<"5", "4", "1", "4", "3">> >>
    /\ prefixes = <<>>
    /\ naics = <<Some(<<"5", "4", "1", "4", "3", "0">>), Some(<<"5", "4", "1", "4", "3">>)>>
    /\ m = <<FALSE, TRUE>>

(***************************************************************************)
(* Rows of the registries                                                  *)
(***************************************************************************)
Code10 == <<"1", "0">>
Code20 == <<"2", "0">>
Code30 == <<"3", "0">>
Code99 == <<"9", "9">>
Dt01 == <<"0", "1">>
Dt02 == <<"0", "2">>
Dt03 == <<"0", "3">>
Dt77 == <<"7", "7">>

Ser(id, ind, dt, sea) ==
    [series_id |-> Some(<<id>>), industry_code |-> Some(ind),
     datatype_code |-> Some(dt), seasonal |-> Some(<<sea>>)]

Ind(code, nc, name) ==
    [industry_code |-> Some(code), naics_code |-> nc, industry_name |-> Some(<<name>>)]

Dt(code, text) == [datatype_code |-> Some(code), datatype_text |-> Some(text)]

(***************************************************************************)
(* The scripts' steps                                                      *)
(***************************************************************************)
PrepNormalize ==
    /\ prog = "prep" /\ pc = "normalize"
    /\ tables' = prep_normalize(tables)
    /\ pc' = "dict"
    /\ UNCHANGED <<prog, series_dict, df, idx, extracted, files, warned,
                   career_df, cc, naics, exact, prefixes, m>>

PrepSeriesDict ==
    /\ prog = "prep" /\ pc = "dict"
    /\ series_dict' = prep_series_dict(tables)
    /\ pc' = "monthly"
    /\ UNCHANGED <<prog, tables, df, idx, extracted, files, warned,
                   career_df, cc, naics, exact, prefixes, m>>

LoadBuildDictionary ==
    /\ prog \in {"load", "extract"} /\ pc = "dict"
    /\ series_dict' = build_dictionary(tables)
    /\ pc' = IF prog = "load" THEN "extract" ELSE "call"
    /\ UNCHANGED <<prog, tables, df, idx, extracted, files, warned,
                   career_df, cc, naics, exact, prefixes, m>>

PrepMonthlyOnly ==
    /\ prog = "prep" /\ pc = "monthly"
    /\ df' = prep_monthly(tables.data)
    /\ pc' = "join"
    /\ UNCHANGED <<prog, tables, series_dict, idx, extracted, files, warned,
                   career_df, cc, naics, exact, prefixes, m>>

\* The join; make_date raises when a text is no date.
PrepJoin ==
    /\ prog = "prep" /\ pc = "join"
    /\ LET j == prep_join(df, series_dict)
       IN  IF \E k \in 1..Len(j) : j[k].date = NA
           THEN pc' = "error" /\ df' = df
           ELSE /\ pc' = "measures"
                /\ df' = [k \in 1..Len(j) |-> [j[k] EXCEPT !.date = j[k].date[1]]]
    /\ UNCHANGED <<prog, tables, series_dict, idx, extracted, files, warned,
                   career_df, cc, naics, exact, prefixes, m>>

PrepFilterMeasures ==
    /\ prog = "prep" /\ pc = "measures"
    /\ df' = prep_measures(df)
    /\ pc' = "career"
    /\ UNCHANGED <<prog, tables, series_dict, idx, extracted, files, warned,
                   career_df, cc, naics, exact, prefixes, m>>

\* One iteration of the loop over CAREER_NAICS: the mask is taken ...
CareerMask ==
    /\ naics' = Col(df, "naics_code")
    /\ exact' = CAREER_NAICS[idx].naics_exact
    /\ prefixes' = CAREER_NAICS[idx].naics_prefixes
    /\ m' = naics_mask(naics', exact', prefixes')
    /\ career_df' = Masked(df, m')

CareerAdvance ==
    /\ idx' = idx + 1
    /\ pc' = IF idx = Len(CAREER_NAICS) THEN "done" ELSE "career"

\* ... no row matched: the warning is printed and the loop continues.
PrepCareerEmpty ==
    /\ prog = "prep" /\ pc = "career"
    /\ CareerMask
    /\ career_df' = <<>>
    /\ warned' = warned \cup {CAREER_NAICS[idx].career}
    /\ CareerAdvance
    /\ UNCHANGED <<prog, tables, series_dict, df, extracted, files, cc>>

\* ... rows matched: collapse_career returns and the table is written.
PrepCareerWrite ==
    /\ prog = "prep" /\ pc = "career"
    /\ CareerMask
    /\ career_df' # <<>>
    /\ cc' = collapse_career(career_df')
    /\ ~cc'.raised
    /\ files' = [files EXCEPT ![idx] = Some(cc'.out)]
    /\ CareerAdvance
    /\ UNCHANGED <<prog, tables, series_dict, df, extracted, warned>>

\* ... rows matched: collapse_career raises and main ends with the traceback.
PrepCareerRaise ==
    /\ prog = "prep" /\ pc = "career"
    /\ CareerMask
    /\ career_df' # <<>>
    /\ cc' = collapse_career(career_df')
    /\ cc'.raised
    /\ pc' = "error"
    /\ UNCHANGED <<prog, tables, series_dict, df, idx, extracted, files, warned>>

\* load main, step 5: one extract_proxy_dataset call per proxy.
LoadExtract ==
    /\ prog = "load" /\ pc = "extract"
    /\ extracted' = Append(extracted,
            extract_proxy_dataset(tables, series_dict, LOAD_PROXIES[idx].codes,
                                  LOAD_MEASURES, NA))
    /\ idx' = idx + 1
    /\ pc' = IF idx = Len(LOAD_PROXIES) THEN "save" ELSE "extract"
    /\ UNCHANGED <<prog, tables, series_dict, df, files, warned,
                   career_df, cc, naics, exact, prefixes, m>>

\* step 6: the three tables are written, empty or not.
LoadSave ==
    /\ prog = "load" /\ pc = "save"
    /\ files' = [k \in 1..Len(LOAD_PROXIES) |-> Some(extracted[k])]
    /\ pc' = "check"
    /\ UNCHANGED <<prog, tables, series_dict, df, idx, extracted, warned,
                   career_df, cc, naics, exact, prefixes, m>>

\* step 7: the empty ones are named.
LoadCheck ==
    /\ prog = "load" /\ pc = "check"
    /\ warned' = {LOAD_PROXIES[k].name : k \in {j \in 1..Len(LOAD_PROXIES) : extracted[j] = <<>>}}
    /\ pc' = "done"
    /\ UNCHANGED <<prog, tables, series_dict, df, idx, extracted, files,
                   career_df, cc, naics, exact, prefixes, m>>

\* extract_proxy_dataset called with a predicate, a whitelist and a seasonal
\* filter of the caller's choice.
CallCodes == { {Code10}, {<<"1">>, Code30} }
CallWhitelists == { MEASURES, {EMP_TEXT} }
CallSeasonal == { NA, Some(<<"U">>) }

ExtractCall ==
    /\ prog = "extract" /\ pc = "call"
    /\ \E codes \in CallCodes, wl \in CallWhitelists, sea \in CallSeasonal :
          extracted' = <<extract_proxy_dataset(tables, series_dict, codes, wl, sea)>>
    /\ pc' = "returned"
    /\ UNCHANGED <<prog, tables, series_dict, df, idx, files, warned,
                   career_df, cc, naics, exact, prefixes, m>>

(***************************************************************************)
(* Spec: a run of prep main, of load main, or of extract_proxy_dataset     *)
(***************************************************************************)
MaxObs == 3

Y2020 == <<"2", "0", "2", "0">>

Obs(id, period, value) ==
    [series_id |-> Some(<<id>>), year |-> Some(Y2020), period |-> period,
     value |-> Some(value)]

\* The registries: industry 10 (motor repair) with a seasonally adjusted and
\* an unadjusted employment series and an earnings series, 20 (graphic design)
\* with employment only, 30 (computer systems design) with earnings only, and a
\* series of an unregistered industry.
MainSeries == <<
    Ser("s1", Code10, Dt01, "S"), Ser("s2", Code10, Dt01, "U"),
    Ser("s3", Code10, Dt03, "S"), Ser("s4", Code20, Dt01, "S"),
    Ser("s5", Code30, Dt03, "S"), Ser("s7", Code99, Dt01, "S") >>

MainIndustry == <<
    Ind(Code10, Some(<<"8", "1", "1", "1", "9", "2", " ">>), "Other automotive repair"),
    Ind(Code20, Some(<<"5", "4", "1", "4", "3">>), "Graphic design services"),
    Ind(Code30, Some(<<"5", "4", "1", "5", "1", "1">>), "Custom computer programming") >>

MainDatatype == <<
    Dt(Dt01, EMP_TEXT), Dt(Dt02, <<"AVERAGE WEEKLY HOURS OF ALL EMPLOYEES">>),
    Dt(Dt03, AHE_TEXT) >>

M(a, b) == Some(<<"M", a, b>>)

\* Rows of the observation file, each at most once in a file: monthly ones,
\* the annual average M13, M00, a padded period, a null period and an
\* unparseable value.
Observations ==
    { Obs("s1", M("0", "1"), <<"1", "0", "0">>),
      Obs("s2", M("0", "1"), <<"1", "1", "0">>),
      Obs("s3", M("0", "1"), <<" ", "1", "0">>),
      Obs("s3", M("0", "2"), <<"1", "2">>),
      Obs("s4", M("0", "1"), <<"3", "0", "0">>),
      Obs("s5", M("1", "2"), <<"2", "0">>),
      Obs("s7", M("0", "1"), <<"5", "0">>),
      Obs("s1", M("1", "3"), <<"1", "0", "5">>),
      Obs("s3", M("1", "3"), <<"1", "1">>),
      Obs("s1", M("0", "0"), <<"1", "0", "0">>),
      Obs("s4", Some(<<"M", "0", "2", " ">>), <<"3", "0", "1">>),
      Obs("s1", NA, <<"1", "0", "0">>),
      Obs("s1", M("0", "2"), <<"-">>) }

Init ==
    /\ IdleCollapse
    /\ IdleMask
    /\ prog \in {"prep", "load", "extract"}
    /\ pc = IF prog = "prep" THEN "normalize" ELSE "dict"
    /\ \E d \in UNION {[1..n -> Observations] : n \in 0..MaxObs} :
          /\ \A a, b \in 1..Len(d) : d[a] = d[b] => a = b
          /\ tables = [data |-> d, series |-> MainSeries, industry |-> MainIndustry,
                       datatype |-> MainDatatype]
    /\ series_dict = <<>>
    /\ df = <<>>
    /\ idx = 1
    /\ extracted = <<>>
    /\ files = [k \in 1..Len(CAREER_NAICS) |-> NA]
    /\ warned = {}

Next ==
    \/ PrepNormalize
    \/ PrepSeriesDict
    \/ PrepMonthlyOnly
    \/ PrepJoin
    \/ PrepFilterMeasures
    \/ PrepCareerEmpty
    \/ PrepCareerWrite
    \/ PrepCareerRaise
    \/ LoadBuildDictionary
    \/ LoadExtract
    \/ LoadSave
    \/ LoadCheck
    \/ ExtractCall

Spec == Init /\ [][Next]_vars

(***************************************************************************)
(* SpecDict: the dictionary built from bounded registries                  *)
(***************************************************************************)
MaxSeries == 2

\* Series whose industry or datatype code may be padded or unregistered.
DictSeries ==
    { Ser("s1", Code10, Dt01, "S"), Ser("s2", Code10 \o <<" ">>, Dt03, "U"),
      Ser("s3", Code99, Dt01, "S"), Ser("s4", Code20, Dt77, "S"),
      Ser("s5", Code99, Dt77, "U") }

\* Industry rows, among them two for one code and a padded code.
DictIndustries ==
    { Ind(Code10, Some(<<"8", "1", "1", "1", "9", "2", " ">>), "Other automotive repair"),
      Ind(Code10, Some(<<"8", "1", "1", "1">>), "Automotive repair"),
      Ind(Code10 \o <<" ">>, NA, "Automotive repair (padded)"),
      Ind(Code20, Some(<<"5", "4", "1", "4", "3">>), "Graphic design services") }

DictDatatypes ==
    { Dt(Dt01, EMP_TEXT), Dt(Dt01, <<"ALL EMPLOYEES">>), Dt(Dt03, AHE_TEXT) }

InitDict ==
    /\ IdleCollapse
    /\ IdleMask
    /\ prog \in {"prep", "load"}
    /\ pc = IF prog = "prep" THEN "normalize" ELSE "dict"
    /\ \E s \in UNION {[1..n -> DictSeries] : n \in 0..MaxSeries},
          i \in UNION {[1..n -> DictIndustries] : n \in 0..2},
          d \in UNION {[1..n -> DictDatatypes] : n \in 0..2} :
          tables = [data |-> <<>>, series |-> s, industry |-> i, datatype |-> d]
    /\ series_dict = <<>>
    /\ df = <<>>
    /\ idx = 1
    /\ extracted = <<>>
    /\ files = <<>>
    /\ warned = {}

NextDict == PrepNormalize \/ PrepSeriesDict \/ LoadBuildDictionary

SpecDict == InitDict /\ [][NextDict]_vars

\* Keys of a registry, and the point where a script has built its dictionary.
UniqueKey(rows, key) ==
    \A a, b \in 1..Len(rows) : rows[a][key] = rows[b][key] => a = b

HasKey(rows, key, v) == \E a \in 1..Len(rows) : rows[a][key] = v

DictBuilt == prog \in {"prep", "load"} /\ pc \in {"monthly", "extract"}

\* C6: with industry codes and datatype codes unique in their registries, the
\* dictionary has exactly one row per series registry row, in order, and a
\* series whose code is not registered has a null industry name or datatype
\* text.
C6_OneDictionaryRowPerSeries ==
    (/\ DictBuilt
     /\ UniqueKey(tables.industry, "industry_code")
     /\ UniqueKey(tables.datatype, "datatype_code")) =>
        /\ Len(series_dict) = Len(tables.series)
        /\ \A k \in 1..Len(series_dict) :
              /\ series_dict[k].series_id = tables.series[k].series_id
              /\ ~HasKey(tables.industry, "industry_code", tables.series[k].industry_code)
                    => series_dict[k].industry_name = NA
              /\ ~HasKey(tables.datatype, "datatype_code", tables.series[k].datatype_code)
                    => series_dict[k].datatype_text = NA

C6_Witness ==
    /\ DictBuilt
    /\ UniqueKey(tables.industry, "industry_code")
    /\ UniqueKey(tables.datatype, "datatype_code")
    /\ Len(tables.industry) = 2
    /\ Len(tables.series) = 2
    /\ Len(series_dict) = 2
    /\ series_dict[1].industry_name = NA
    /\ series_dict[1].datatype_text # NA
    /\ series_dict[2].industry_name # NA
    /\ series_dict[2].datatype_text = NA

(***************************************************************************)
(* Properties of the runs (checked under Spec)                             *)
(***************************************************************************)
Monthly12 == <<
    <<"M", "0", "1">>, <<"M", "0", "2">>, <<"M", "0", "3">>, <<"M", "0", "4">>,
    <<"M", "0", "5">>, <<"M", "0", "6">>, <<"M", "0", "7">>, <<"M", "0", "8">>,
    <<"M", "0", "9">>, <<"M", "1", "0">>, <<"M", "1", "1">>, <<"M", "1", "2">> >>

IsMonthlyCode(c) == c # NA /\ \E k \in 1..Len(Monthly12) : Monthly12[k] = c[1]

MonthNumber(c) == CHOOSE k \in 1..Len(Monthly12) : Monthly12[k] = c[1]

\* C9: no observation with a period code outside M01..M12 is in a table that
\* extract_proxy_dataset returns, in prep main's table from the monthly filter
\* on, or in the rows handed to collapse_career; and every such row's date is
\* the first day of the month of its (year, period code).
C9_OnlyMonthlyDownstream ==
    /\ \A t \in 1..Len(extracted) : \A j \in 1..Len(extracted[t]) :
          LET r == extracted[t][j]
          IN  /\ IsMonthlyCode(r.period)
              /\ r.date = Some(<<ParseNat(r.year[1]), MonthNumber(r.period), 1>>)
    /\ (prog = "prep" /\ pc \notin {"normalize", "dict", "monthly"}) =>
          \A j \in 1..Len(df) :
              /\ IsMonthlyCode(df[j].period)
              /\ "date" \in DOMAIN df[j] =>
                    df[j].date = <<df[j].year, MonthNumber(df[j].period), 1>>
    /\ prog = "prep" =>
          \A j \in 1..Len(career_df) :
              /\ IsMonthlyCode(career_df[j].period)
              /\ career_df[j].date =
                    <<career_df[j].year, MonthNumber(career_df[j].period), 1>>

\* The file holds s1 at M13, M00 and M01; the call returns the M01 row alone.
C9_Witness ==
    /\ prog = "extract" /\ pc = "returned"
    /\ Col(tables.data, "period") = <<M("1", "3"), M("0", "0"), M("0", "1")>>
    /\ \A j \in 1..Len(tables.data) : tables.data[j].series_id = Some(<<"s1">>)
    /\ Len(extracted[1]) = 1
    /\ extracted[1][1].period = M("0", "1")
    /\ extracted[1][1].date = Some(<<2020, 1, 1>>)

\* C10 (as claimed): in a collapse_career call of prep main that returns, each
\* earnings row of a date gives exactly one term of the weighted average, and
\* each industry code's employment is counted once in the date's total.
C10_NoDoubleCounting ==
    (prog = "prep" /\ career_df # <<>> /\ cc # NoCall /\ ~cc.raised) =>
        \A d \in DatesOf(EMP_TEXT) \cup DatesOf(AHE_TEXT) :
            /\ Len(SelectSeq(cc.earn, LAMBDA r : r.date = d)) = Len(RowsOf(d, AHE_TEXT))
            /\ Len(RowsOf(d, EMP_TEXT))
                    = Cardinality(SeqSet(Col(RowsOf(d, EMP_TEXT), "industry_code")))

\* Whether proxy k of the run matched no row, and the name its diagnostic carries.
ProxyEmpty(k) ==
    IF prog = "prep"
    THEN Masked(df, naics_mask(Col(df, "naics_code"), CAREER_NAICS[k].naics_exact,
                               CAREER_NAICS[k].naics_prefixes)) = <<>>
    ELSE extracted[k] = <<>>

ProxyName(k) == IF prog = "prep" THEN CAREER_NAICS[k].career ELSE LOAD_PROXIES[k].name

\* C7 (as claimed): when a run of prep main or load main has ended, it ended
\* without an error, every proxy that matched no row has an empty output table
\* and is named in a diagnostic, and every other proxy has its output table.
C7_EmptyProxyGetsEmptyTableAndRunGoesOn ==
    (prog \in {"prep", "load"} /\ pc \in {"done", "error"}) =>
        /\ pc = "done"
        /\ \A k \in 1..Len(CAREER_NAICS) :
              IF ProxyEmpty(k)
              THEN files[k] = Some(<<>>) /\ ProxyName(k) \in warned
              ELSE files[k] # NA

====
